---- MODULE Spec2Model ----
(***************************************************************************)
(* A model of the hunger-games narrative engine: Game (weighted event      *)
(* selection, recursive triggering, rounds), Character (alliances) and      *)
(* the checks of a CheckSuite (condition suites).                           *)
(*                                                                         *)
(* Several specifications share the module.  Each drives one part of the    *)
(* program and leaves the variables of the other parts at rest:             *)
(*   SpecChoose    Game.chooseFromEvents called on arbitrary pools          *)
(*   SpecGame      Game.round / Game.trigger over a cast                    *)
(*   SpecByName    Game.triggerByName / Game.trigger                        *)
(*   SpecAlliance  Character.joinAlliance / leaveAlliance / reset           *)
(*   SpecJoinLeave Character.joinAlliance / leaveAlliance alone             *)
(*   SpecLife      Character.incAge / kill / revive / reset                 *)
(*   SpecCheck     CheckSuite.load / checkAll and ItemCheck.check           *)
(*   SpecSuite     CheckSuite with NearbyCheck, CreateCheck and             *)
(*                 addNearbyCheckIfNeeded                                   *)
(*   SpecLimit     LimitCheck on a State whose trigger counters grow        *)
(***************************************************************************)
EXTENDS Integers, Sequences, FiniteSets, TLC

VARIABLES
    events,      \* Game.events: the authored library (sequence of Event)
    cpc,         \* SpecChoose: "idle" or "called"
    call,        \* SpecChoose: the last chooseFromEvents call and its outcome
    alive,       \* Character.alive of every tribute
    gpc,         \* SpecGame: position of Game.round / Game.trigger
    tIdx,        \* index of the tribute Game.round is at, or triggerByName found
    allresults,  \* SpecGame: Game.round's allresults list
    stack,       \* SpecGame: the frames of the nested Game.trigger calls
    ret,         \* SpecGame: the value the innermost finished call returned
    chain,       \* SpecGame: events triggered in the current chain, in call order
    turnAlive,   \* SpecGame: for each tribute reached, isAlive() at its turn
    startAlive,  \* SpecGame: Character.alive of every tribute when the round began
    returned,    \* what Game.round or triggerByName returned, once it has
    calls,       \* the chooseFromEvents calls of the current chain
    request,     \* the triggerByName call being served
    name,        \* Character.name (with imgSrc and pronouns) of every character
    alliance,    \* Character.alliance: the list object each character refers to
    heap,        \* the contents of every list object
    argsLists,   \* CheckSuite: the authored argument lists of the suite
    checks,      \* CheckSuite.checks
    spc,         \* the suite: "new", "loaded", "failed", "nearby", "checked", "raised"
    subject,     \* the character checkAll was called with
    bindings,    \* the State's item bindings after checkAll
    evalLog,     \* each check run by checkAll, with its State before and after
    results,     \* the list checkAll returned
    triggers,    \* the State's trigger counters: total and for the subject
    age,         \* Character.age of every character
    roundsSurvived  \* Character.roundsSurvived of every character

chooseVars == <<cpc, call>>
gameVars ==
    <<alive, gpc, tIdx, allresults, stack, ret, chain, turnAlive, startAlive,
      returned, calls, request>>
allianceVars == <<name, alliance, heap>>

checkVars ==
    <<argsLists, checks, spc, subject, bindings, evalLog, results, triggers>>

lifeVars == <<age, roundsSurvived>>

\* What each specification leaves at rest.
offChoose == <<gameVars, allianceVars, checkVars, lifeVars>>
offGame == <<chooseVars, allianceVars, checkVars, lifeVars>>
offAlliance == <<events, chooseVars, gameVars, checkVars, lifeVars>>
offCheck == <<events, chooseVars, gameVars, allianceVars, lifeVars>>

----------------------------------------------------------------------------
(* Bounds *)

MaxPool == 4        \* longest event pool handed to chooseFromEvents
MaxChance == 2      \* largest chance weight of an event
NumChars == 2       \* size of the cast
MaxDepth == 2       \* longest trigger chain
NumAllies == 3      \* characters that form alliances
MaxEntries == 3     \* entries all alliance lists hold together
MaxChecks == 2      \* authored conditions of a suite
MaxItems == 2       \* items a character carries
MaxTriggers == 4    \* triggers a State counts
MaxAge == 4         \* largest age a character reaches

----------------------------------------------------------------------------
(* Events.  An Event is known to the engine by getName(), getChance() and   *)
(* its text; prepare() and trigger() are collaborator calls whose outcomes  *)
(* are inputs of the actions below.                                         *)

NoEvent == [name |-> 0, chance |-> 0]      \* Python's None for Optional[Event]

NoChoice == -1                             \* randint was not called

\* Every pool of k distinct events: the i-th event is named i.
PoolsOfLen(k) ==
    { [i \in 1..k |-> [name |-> i, chance |-> w[i]]] : w \in [1..k -> 0..MaxChance] }

Pools == UNION { PoolsOfLen(k) : k \in 1..MaxPool }

\* random.randint(a, b): both ends inclusive.
RandInt(a, b) == a..b

Return(event) == [kind |-> "return", event |-> event, msg |-> ""]

Raise(msg) == [kind |-> "raise", event |-> NoEvent, msg |-> msg]

\* `if not events: events = self.events`
EffectivePool(argEvents, library) ==
    IF argEvents = <<>> THEN library ELSE argEvents

LoopInit ==
    [possibleEvents |-> <<>>, totalChance |-> 0, defaultEvent |-> NoEvent,
     prepareLog |-> <<>>]

\* One iteration of `for event in events:` with the outcome of event.prepare.
PrepareStepNoDefault(acc, event, prepared) ==
    LET logged == [acc EXCEPT !.prepareLog = Append(@, event.name)]
    IN  IF prepared /\ event.chance # 0
        THEN [logged EXCEPT !.totalChance = @ + event.chance,
                            !.possibleEvents = Append(@, event)]
        ELSE logged

PrepareStepKeepsFirst(acc, event, prepared) ==
    LET logged == [acc EXCEPT !.prepareLog = Append(@, event.name)]
    IN  IF prepared
        THEN IF event.chance = 0
             THEN IF acc.defaultEvent = NoEvent
                  THEN [logged EXCEPT !.defaultEvent = event]
                  ELSE logged
             ELSE [logged EXCEPT !.totalChance = @ + event.chance,
                                 !.possibleEvents = Append(@, event)]
        ELSE logged

PrepareStep(acc, event, prepared) ==
    LET logged == [acc EXCEPT !.prepareLog = Append(@, event.name)]
    IN  IF prepared
        THEN IF event.chance = 0
             THEN [logged EXCEPT !.defaultEvent = event]
             ELSE [logged EXCEPT !.totalChance = @ + event.chance,
                                 !.possibleEvents = Append(@, event)]
        ELSE logged

RECURSIVE PrepareLoop(_, _, _, _)
PrepareLoop(evs, prep, i, acc) ==
    IF i > Len(evs) THEN acc
    ELSE PrepareLoop(evs, prep, i + 1, PrepareStep(acc, evs[i], prep[i]))

\* The walk over possibleEvents with the running `count`.
RECURSIVE Walk(_, _, _, _)
Walk(possibleEvents, choice, i, count) ==
    IF i > Len(possibleEvents)
    THEN Raise("Invalid choice when choosing from events")
    ELSE IF choice >= count /\ choice < count + possibleEvents[i].chance
         THEN Return(possibleEvents[i])
         ELSE Walk(possibleEvents, choice, i + 1, count + possibleEvents[i].chance)

\* The draws `choice = randint(0, totalChance - 1)` can produce.
DrawsInclusive(loop) ==
    IF loop.possibleEvents = <<>> THEN {NoChoice}
    ELSE RandInt(0, loop.totalChance)

Draws(loop) ==
    IF loop.possibleEvents = <<>> THEN {NoChoice}
    ELSE RandInt(0, loop.totalChance - 1)

\* Lines 83-96: what chooseFromEvents returns or raises after the loop.
SelectDefaultFirst(loop, choice) ==
    IF loop.defaultEvent # NoEvent THEN Return(loop.defaultEvent)
    ELSE IF loop.possibleEvents = <<>>
         THEN Raise("No events matched when choosing from events")
         ELSE Walk(loop.possibleEvents, choice, 1, 0)

Select(loop, choice) ==
    IF loop.possibleEvents = <<>>
    THEN IF loop.defaultEvent # NoEvent
         THEN Return(loop.defaultEvent)
         ELSE Raise("No events matched when choosing from events")
    ELSE Walk(loop.possibleEvents, choice, 1, 0)

\* The authored library of the game runs: two weighted events and a fallback.
GameEvents ==
    << [name |-> 1, chance |-> 2],
       [name |-> 2, chance |-> 1],
       [name |-> 3, chance |-> 0] >>

NoCall ==
    [argEvents |-> <<>>, pool |-> <<>>, prep |-> <<>>, loop |-> LoopInit,
     choice |-> NoChoice, result |-> Raise("")]

----------------------------------------------------------------------------
(* SpecChoose: Game.chooseFromEvents as a top-level call *)

GameAtRest ==
    /\ alive = <<>>
    /\ gpc = "off"
    /\ tIdx = 0
    /\ allresults = <<>>
    /\ stack = <<>>
    /\ ret = <<>>
    /\ chain = <<>>
    /\ turnAlive = <<>>
    /\ startAlive = <<>>
    /\ returned = <<>>
    /\ calls = <<>>
    /\ request = <<>>

AllianceAtRest ==
    /\ name = <<>>
    /\ alliance = <<>>
    /\ heap = <<>>

CheckAtRest ==
    /\ argsLists = <<>>
    /\ checks = <<>>
    /\ spc = "off"
    /\ subject = <<>>
    /\ bindings = <<>>
    /\ evalLog = <<>>
    /\ results = <<>>
    /\ triggers = <<>>

LifeAtRest ==
    /\ age = <<>>
    /\ roundsSurvived = <<>>

InitChoose ==
    /\ events = GameEvents
    /\ cpc = "idle"
    /\ call = NoCall
    /\ GameAtRest
    /\ AllianceAtRest
    /\ CheckAtRest
    /\ LifeAtRest

ChooseFromEvents ==
    /\ cpc = "idle"
    /\ \E argEvents \in Pools \cup {<<>>} :
         LET pool == EffectivePool(argEvents, events) IN
         \E prep \in [1..Len(pool) -> BOOLEAN] :
           LET loop == PrepareLoop(pool, prep, 1, LoopInit) IN
           \E choice \in Draws(loop) :
             call' = [argEvents |-> argEvents, pool |-> pool, prep |-> prep,
                      loop |-> loop, choice |-> choice,
                      result |-> Select(loop, choice)]
    /\ cpc' = "called"
    /\ UNCHANGED <<events, offChoose>>

\* The caller takes the outcome; the engine is ready for the next call.
ChooseDone ==
    /\ cpc = "called"
    /\ cpc' = "idle"
    /\ call' = NoCall
    /\ UNCHANGED <<events, offChoose>>

vars == <<events, cpc, call, alive, gpc, tIdx, allresults, stack, ret, chain,
          turnAlive, startAlive, returned, name, alliance, heap, argsLists,
          checks, spc, subject, bindings, evalLog, results, calls, request,
          triggers, age, roundsSurvived>>

NextChoose == ChooseFromEvents \/ ChooseDone

SpecChoose == InitChoose /\ [][NextChoose]_vars

----------------------------------------------------------------------------
(* SpecGame: Game.round and the recursive Game.trigger *)

\* The cast, Game.tributes, in cast order.
Tributes == [i \in 1..NumChars |-> i]

NoChar == 0

RECURSIVE SubLists(_)
SubLists(s) ==
    IF s = <<>> THEN { <<>> }
    ELSE LET rest == SubLists(Tail(s))
         IN  rest \cup { <<Head(s)>> \o r : r \in rest }

\* The events authored as sub-events: one weighted, one fallback.
SubEvents ==
    << [name |-> 4, chance |-> 1],
       [name |-> 5, chance |-> 0] >>

\* The sub-event lists Event.trigger() may hand back.
SubEventLists == SubLists(SubEvents)

\* Character.isAlive
IsAlive(c) == alive[c]

\* Game.round: `if not tribute.isAlive(): continue`
SkipsNoTribute(c) == FALSE

SkipsTribute(c) == ~IsAlive(c)

\* (state.getReplacedText(event.text), state.getResultStrs()) of one event.
TextResult(event) == [text |-> event.name]

\* `textResults += self.trigger(char, sub)`
ConcatSubFirst(textResults, subResults) == subResults \o textResults

Concat(textResults, subResults) == textResults \o subResults

\* The effects of Event.trigger() on the cast: it may kill one tribute.
Kill(victim) ==
    IF victim = NoChar THEN alive ELSE [alive EXCEPT ![victim] = FALSE]

Frame(event) == [event |-> event, textResults |-> <<>>]

Pop(s) == SubSeq(s, 1, Len(s) - 1)

\* chooseFromEvents(char, pool, state) with the outcomes of prepare and randint.
ChooseOutcomes(argEvents) ==
    LET pool == EffectivePool(argEvents, events) IN
    UNION { LET loop == PrepareLoop(pool, prep, 1, LoopInit)
            IN  { Select(loop, choice) : choice \in Draws(loop) }
            : prep \in [1..Len(pool) -> BOOLEAN] }

NoState == 0                \* Python's None for the `state` argument

\* The State the k-th Event.trigger() of a chain returns.
StateOf(k) == k

\* Game.trigger: `if subEvents:`
SubEventsGiven(subEvents) == subEvents # <<>>

\* The arguments of the prepare calls of the loop `for event in events:`,
\* one call per event of the pool, each with the state handed in.
PrepareCallsNoState(pool, state) ==
    [i \in 1..Len(pool) |-> [event |-> pool[i].name, state |-> NoState]]

PrepareCalls(pool, state) ==
    [i \in 1..Len(pool) |-> [event |-> pool[i].name, state |-> state]]

\* One chooseFromEvents(char, argEvents, state) call: the pool it goes
\* through and the prepare calls it makes before anything is selected.
ChooseCall(argEvents, state) ==
    LET pool == EffectivePool(argEvents, events)
    IN  [argEvents |-> argEvents, pool |-> pool, state |-> state,
         prepares |-> PrepareCalls(pool, state)]

InitGame ==
    /\ events = GameEvents
    /\ cpc = "off"
    /\ call = NoCall
    /\ alive = [c \in 1..NumChars |-> TRUE]
    /\ gpc = "idle"
    /\ tIdx = 0
    /\ allresults = <<>>
    /\ stack = <<>>
    /\ ret = <<>>
    /\ chain = <<>>
    /\ turnAlive = <<>>
    /\ startAlive = alive
    /\ returned = <<>>
    /\ calls = <<>>
    /\ request = <<>>
    /\ AllianceAtRest
    /\ CheckAtRest
    /\ LifeAtRest

\* Game.round, line 99.
RoundStart ==
    /\ gpc \in {"idle", "done"}
    /\ gpc' = "round"
    /\ tIdx' = 1
    /\ allresults' = <<>>
    /\ turnAlive' = <<>>
    /\ startAlive' = alive
    /\ chain' = <<>>
    /\ ret' = <<>>
    /\ returned' = <<>>
    /\ calls' = <<>>
    /\ UNCHANGED <<events, offGame, alive, stack, request>>

\* Game.round, lines 100-102: the tribute is passed over.
RoundSkip ==
    /\ gpc = "round"
    /\ tIdx <= Len(Tributes)
    /\ SkipsTribute(Tributes[tIdx])
    /\ turnAlive' = Append(turnAlive, IsAlive(Tributes[tIdx]))
    /\ tIdx' = tIdx + 1
    /\ UNCHANGED <<events, offGame, alive, gpc, allresults, stack, ret, chain,
                   startAlive, returned, calls, request>>

\* Game.round, lines 100-104: an event is chosen from the library and the
\* outermost Game.trigger call begins, or chooseFromEvents raises.
RoundChoose ==
    /\ gpc = "round"
    /\ tIdx <= Len(Tributes)
    /\ ~SkipsTribute(Tributes[tIdx])
    /\ turnAlive' = Append(turnAlive, IsAlive(Tributes[tIdx]))
    /\ chain' = <<>>
    /\ calls' = <<ChooseCall(<<>>, NoState)>>
    /\ \E res \in ChooseOutcomes(<<>>) :
         IF res.kind = "raise"
         THEN /\ gpc' = "raised"
              /\ stack' = stack
         ELSE /\ gpc' = "trigger"
              /\ stack' = <<Frame(res.event)>>
    /\ UNCHANGED <<events, offGame, alive, tIdx, allresults, ret, startAlive,
                   returned, request>>

\* Game.trigger, lines 59-64: the event of the innermost call is triggered,
\* its text recorded, and either a sub-event is chosen and triggered in a
\* nested call, or the call returns its one text result.
Trigger ==
    /\ gpc = "trigger"
    /\ LET top == Len(stack)
           event == stack[top].event
           state == StateOf(Len(chain) + 1)
           textResults == <<TextResult(event)>>
       IN  /\ chain' = Append(chain, event.name)
           /\ \E victim \in 0..NumChars : alive' = Kill(victim)
           /\ \E subEvents \in SubEventLists :
                /\ SubEventsGiven(subEvents) => top < MaxDepth
                /\ calls' = IF SubEventsGiven(subEvents)
                            THEN Append(calls, ChooseCall(subEvents, state))
                            ELSE calls
                /\ IF SubEventsGiven(subEvents)
                   THEN \E res \in ChooseOutcomes(subEvents) :
                          IF res.kind = "raise"
                          THEN /\ gpc' = "raised"
                               /\ stack' = [stack EXCEPT ![top].textResults = textResults]
                               /\ ret' = ret
                          ELSE /\ gpc' = "trigger"
                               /\ stack' = Append([stack EXCEPT ![top].textResults = textResults],
                                                  Frame(res.event))
                               /\ ret' = ret
                   ELSE /\ gpc' = "return"
                        /\ stack' = Pop(stack)
                        /\ ret' = textResults
    /\ UNCHANGED <<events, offGame, tIdx, allresults, turnAlive, startAlive,
                   returned, request>>

\* Game.trigger, lines 64-65: the nested call has returned; its results are
\* added after the caller's own and the caller returns.
TriggerReturn ==
    /\ gpc = "return"
    /\ stack # <<>>
    /\ ret' = Concat(stack[Len(stack)].textResults, ret)
    /\ stack' = Pop(stack)
    /\ UNCHANGED <<events, offGame, alive, gpc, tIdx, allresults, chain,
                   turnAlive, startAlive, returned, calls, request>>

\* Game.round, line 104: the outermost trigger call has returned.
RoundAppend ==
    /\ gpc = "return"
    /\ stack = <<>>
    /\ allresults' = Append(allresults, [char |-> Tributes[tIdx], results |-> ret])
    /\ tIdx' = tIdx + 1
    /\ gpc' = "round"
    /\ UNCHANGED <<events, offGame, alive, stack, ret, chain, turnAlive,
                   startAlive, returned, calls, request>>

\* Game.round, line 105.
RoundReturn ==
    /\ gpc = "round"
    /\ tIdx > Len(Tributes)
    /\ returned' = allresults
    /\ gpc' = "done"
    /\ UNCHANGED <<events, offGame, alive, tIdx, allresults, stack, ret, chain,
                   turnAlive, startAlive, calls, request>>

NextGame ==
    \/ RoundStart
    \/ RoundSkip
    \/ RoundChoose
    \/ Trigger
    \/ TriggerReturn
    \/ RoundAppend
    \/ RoundReturn

SpecGame == InitGame /\ [][NextGame]_vars

----------------------------------------------------------------------------
(* SpecByName: Game.triggerByName over a cast and a library in which names  *)
(* may repeat.                                                              *)

CastNames == {"ann", "bob"}

\* A library with two events of one name, told apart by their chance.
NamedEvents ==
    << [name |-> 1, chance |-> 2],
       [name |-> 1, chance |-> 0],
       [name |-> 2, chance |-> 1] >>

\* The names triggerByName is asked for: those in use and one that is not.
AskedChars == CastNames \cup {"zed"}

AskedEvents == { NamedEvents[i].name : i \in 1..Len(NamedEvents) } \cup {9}

NoRequest == [charName |-> "", eventName |-> 0, prepares |-> <<>>]

\* Lines 39-43: the first tribute, in cast order, whose string() is charName.
RECURSIVE FindTributeLast(_, _)
FindTributeLast(charName, i) ==
    IF i > Len(Tributes) THEN NoChar
    ELSE LET later == FindTributeLast(charName, i + 1)
         IN  IF later # NoChar THEN later
             ELSE IF name[Tributes[i]] = charName THEN Tributes[i] ELSE NoChar

RECURSIVE FindTribute(_, _)
FindTribute(charName, i) ==
    IF i > Len(Tributes) THEN NoChar
    ELSE IF name[Tributes[i]] = charName THEN Tributes[i]
         ELSE FindTribute(charName, i + 1)

\* Lines 46-50: the first event of the library whose getName() is eventName.
RECURSIVE FindEvent(_, _)
FindEvent(eventName, i) ==
    IF i > Len(events) THEN NoEvent
    ELSE IF events[i].name = eventName THEN events[i]
         ELSE FindEvent(eventName, i + 1)

CharNotFound(charName) ==
    [message |-> "unable to find character named", charName |-> charName]

EventNotFound(eventName) ==
    [message |-> "unable to find event named", eventName |-> eventName]

TriggerFailed == [message |-> "Trigger failed"]

InitByName ==
    /\ events = NamedEvents
    /\ cpc = "off"
    /\ call = NoCall
    /\ alive = [c \in 1..NumChars |-> TRUE]
    /\ gpc = "idle"
    /\ tIdx = 0
    /\ allresults = <<>>
    /\ stack = <<>>
    /\ ret = <<>>
    /\ chain = <<>>
    /\ turnAlive = <<>>
    /\ startAlive = alive
    /\ returned = <<>>
    /\ calls = <<>>
    /\ request = NoRequest
    /\ name \in [1..NumChars -> CastNames]
    /\ alliance = <<>>
    /\ heap = <<>>
    /\ CheckAtRest
    /\ LifeAtRest

\* Game.triggerByName, lines 39-56: the lookups, the prepare call and either
\* a one-element result or the start of the outermost Game.trigger call.
TriggerByName ==
    /\ gpc \in {"idle", "done"}
    /\ \E charName \in AskedChars, eventName \in AskedEvents, prepared \in BOOLEAN :
         LET char == FindTribute(charName, 1)
             event == FindEvent(eventName, 1)
             asked == [charName |-> charName, eventName |-> eventName,
                       prepares |-> <<>>]
             fails(result) ==
                 /\ returned' = <<result>>
                 /\ gpc' = "done"
                 /\ stack' = <<>>
                 /\ tIdx' = 0
         IN  /\ IF char = NoChar
                THEN /\ request' = asked
                     /\ fails(CharNotFound(charName))
                ELSE IF event = NoEvent
                THEN /\ request' = asked
                     /\ fails(EventNotFound(eventName))
                ELSE /\ request' = [asked EXCEPT !.prepares =
                                       <<[event |-> event, char |-> char,
                                          state |-> NoState, result |-> prepared]>>]
                     /\ IF prepared
                        THEN /\ returned' = <<>>
                             /\ gpc' = "trigger"
                             /\ stack' = <<Frame(event)>>
                             /\ tIdx' = char
                        ELSE fails(TriggerFailed)
    /\ chain' = <<>>
    /\ calls' = <<>>
    /\ ret' = <<>>
    /\ startAlive' = alive
    /\ UNCHANGED <<events, offGame, alive, allresults, turnAlive>>

\* Line 54: the outermost Game.trigger call has returned.
ByNameReturn ==
    /\ gpc = "return"
    /\ stack = <<>>
    /\ returned' = ret
    /\ gpc' = "done"
    /\ UNCHANGED <<events, offGame, alive, tIdx, allresults, stack, ret, chain,
                   turnAlive, startAlive, calls, request>>

NextByName ==
    \/ TriggerByName
    \/ Trigger
    \/ TriggerReturn
    \/ ByNameReturn

SpecByName == InitByName /\ [][NextByName]_vars

----------------------------------------------------------------------------
(* SpecAlliance: Character.joinAlliance, leaveAlliance and reset.           *)
(* An alliance is a Python list shared by reference: `alliance` maps each   *)
(* character to a list object and `heap` gives every list object's          *)
(* contents.  A list object is named after the first character that refers  *)
(* to it; list objects no character refers to are garbage and hold nothing. *)

Chars == 1..NumAllies

\* One name more than there are characters: the list `[]` creates.
ListIds == 1..(NumAllies + 1)

NewList == NumAllies + 1

\* The casts: every character differs from every other in name, imgSrc or
\* pronouns, or the last character has those of the first.
Casts ==
    { [c \in Chars |-> c],
      [c \in Chars |-> IF c = NumAllies THEN 1 ELSE c] }

Range(s) == { s[i] : i \in 1..Len(s) }

\* Character.__eq__.  Items, tags, location and alive are at their
\* constructor values in every state of SpecAlliance, so the comparison is
\* decided by name, imgSrc and the pronouns; alliance is not compared.
CharEqWithAlliance(st, c, d) ==
    /\ st.name[c] = st.name[d]
    /\ st.heap[st.alliance[c]] = st.heap[st.alliance[d]]

CharEq(st, c, d) == st.name[c] = st.name[d]

\* `x in list`: some element is x or equals x.
ListContains(st, s, c) == \E i \in 1..Len(s) : s[i] = c \/ CharEq(st, s[i], c)

\* list.remove(x): drops the first element that is x or equals x.
ListRemove(st, s, c) ==
    LET i == CHOOSE j \in 1..Len(s) :
                 /\ s[j] = c \/ CharEq(st, s[j], c)
                 /\ \A k \in 1..(j - 1) : ~(s[k] = c \/ CharEq(st, s[k], c))
    IN  SubSeq(s, 1, i - 1) \o SubSeq(s, i + 1, Len(s))

\* The program state the alliance operations read and write.
Here == [name |-> name, alliance |-> alliance, heap |-> heap]

There == [name |-> name', alliance |-> alliance', heap |-> heap']

\* Character.getAlliance, as the list's contents
AllianceOf(st, c) == st.heap[st.alliance[c]]

\* Character.isAlone
IsAlone(st, c) == Len(AllianceOf(st, c)) = 0

\* Character.isAllyOf
IsAllyOf(st, c, other) == ListContains(st, AllianceOf(st, c), other)

\* Garbage is dropped and every list object renamed after the first
\* character that refers to it.
Collect(st) ==
    LET first(g) == CHOOSE c \in Chars :
                        /\ st.alliance[c] = g
                        /\ \A d \in Chars : st.alliance[d] = g => c <= d
    IN  [st EXCEPT
            !.alliance = [c \in Chars |-> first(st.alliance[c])],
            !.heap = [h \in ListIds |->
                        IF h \in Chars /\ first(st.alliance[h]) = h
                        THEN st.heap[st.alliance[h]] ELSE <<>>]]

Ok(st) == [st |-> st, raised |-> FALSE]

Raised(st) == [st |-> st, raised |-> TRUE]

\* Character.joinAlliance
JoinAllianceNoRebind(st, c, g) ==
    Ok([st EXCEPT !.heap[g] = Append(@, c)])

JoinAlliance(st, c, g) ==
    Ok([st EXCEPT !.alliance[c] = g, !.heap[g] = Append(@, c)])

\* Character.leaveAlliance; list.remove raises ValueError when nothing matches.
LeaveAlliance(st, c) ==
    IF IsAlone(st, c) THEN Ok(st)
    ELSE LET g == st.alliance[c] IN
         IF ~ListContains(st, st.heap[g], c) THEN Raised(st)
         ELSE Ok([st EXCEPT !.heap[g] = ListRemove(st, @, c),
                            !.alliance[c] = NewList])

\* Character.reset, as far as the alliance goes
Reset(st, c) == Ok([st EXCEPT !.alliance[c] = NewList])

RECURSIVE SumLen(_, _)
SumLen(h, ids) ==
    IF ids = {} THEN 0
    ELSE LET g == CHOOSE x \in ids : TRUE
         IN  Len(h[g]) + SumLen(h, ids \ {g})

\* Entries held by all the alliance lists together.
Entries == SumLen(heap, ListIds)

InitAlliance ==
    /\ events = GameEvents
    /\ cpc = "off"
    /\ call = NoCall
    /\ GameAtRest
    /\ name \in Casts
    /\ alliance = [c \in Chars |-> c]
    /\ heap = [g \in ListIds |-> <<>>]
    /\ CheckAtRest
    /\ LifeAtRest

\* A call took the program from Here to out.st.
Becomes(out) ==
    LET after == Collect(out.st) IN
    /\ alliance' = after.alliance
    /\ heap' = after.heap
    /\ UNCHANGED <<name, offAlliance>>

\* c.joinAlliance(d.getAlliance()), d any character, c included.
JoinCall(c, d) ==
    /\ Entries < MaxEntries
    /\ Becomes(JoinAlliance(Here, c, alliance[d]))

\* c.joinAlliance([]): the start of a new group.
JoinNewCall(c) ==
    /\ Entries < MaxEntries
    /\ Becomes(JoinAlliance(Here, c, NewList))

LeaveCall(c) ==
    /\ c \in Chars
    /\ Becomes(LeaveAlliance(Here, c))

ResetCall(c) ==
    /\ c \in Chars
    /\ Becomes(Reset(Here, c))

Join == \E c \in Chars, d \in Chars : JoinCall(c, d)

JoinNew == \E c \in Chars : JoinNewCall(c)

Leave == \E c \in Chars : LeaveCall(c)

ResetChar == \E c \in Chars : ResetCall(c)

NextAlliance == Join \/ JoinNew \/ Leave \/ ResetChar

SpecAlliance == InitAlliance /\ [][NextAlliance]_vars

\* Characters that all differ, on whom only joinAlliance and leaveAlliance
\* are called.
InitJoinLeave ==
    /\ InitAlliance
    /\ \A c, d \in Chars : c # d => ~CharEq(Here, c, d)

NextJoinLeave == Join \/ JoinNew \/ Leave

SpecJoinLeave == InitJoinLeave /\ [][NextJoinLeave]_vars

----------------------------------------------------------------------------
(* SpecCheck: CheckSuite.load and CheckSuite.checkAll, with the checks'      *)
(* own check methods.                                                       *)

NoItem == [name |-> "", tags |-> {}, id |-> 0]     \* Python's None for an Item

\* An item some earlier step bound in the State.
StaleItem == [name |-> "stale", tags |-> {}, id |-> 0]

\* The item definitions characters are given copies of.
Catalog ==
    { [name |-> "knife", tags |-> {"weapon", "sharp"}],
      [name |-> "club", tags |-> {"weapon"}],
      [name |-> "bread", tags |-> {"food"}] }

\* Character.items: copies of catalog items, each its own object (id).
InventoriesOfLen(k) ==
    { [i \in 1..k |-> [name |-> f[i].name, tags |-> f[i].tags, id |-> i]] :
        f \in [1..k -> Catalog] }

Inventories == UNION { InventoriesOfLen(k) : k \in 0..MaxItems }

\* The characters checkAll is called with.
Subjects ==
    { [alive |-> a, alliance |-> al, items |-> inv] :
        a \in BOOLEAN, al \in { <<>>, <<"ally">> }, inv \in Inventories }

ItemSlots == {"x", "y"}

\* The item bindings of the State handed to checkAll.
StartBindings ==
    { [sl \in ItemSlots |-> NoItem], [sl \in ItemSlots |-> StaleItem] }

\* The argument lists an author may write for a condition.
AuthoredArgs ==
    { <<"alive">>, <<"dead">>, <<"alone">>,
      <<"item", "x", "weapon">>, <<"item", "y", "weapon", "sharp">>,
      <<"itemeq", "x", "club">>, <<"itemeq", "y", "bread">> }

AuthoredLists ==
    UNION { [1..k -> AuthoredArgs] : k \in 0..MaxChecks }

\* The check classes' `matches` lists.
ClassOf(token) ==
    CASE token \in {"nearby", "anydistance"} -> "NearbyCheck"
      [] token \in {"alive", "dead"} -> "AliveCheck"
      [] token \in {"alone", "allied"} -> "AloneCheck"
      [] token \in {"item", "itemeq"} -> "ItemCheck"
      [] token \in {"create", "createeq"} -> "CreateCheck"
      [] token \in {"limit"} -> "LimitCheck"

NoShort == ""                   \* Python's None for a shorthand

\* The character slots the Registry knows while the suite is loaded: the
\* suite's own, "a", and "b", registered by a suite loaded before.
KnownChars == {"a", "b"}

\* validateCharShort
ValidCharShort(short) == short \in KnownChars

\* validateLoadedItemTag: some catalog item carries the tag.
ValidItemTag(tag) == \E it \in Catalog : tag \in it.tags

\* The catalog's own Item objects; characters hold copies of them.
CatalogItem(it) == [name |-> it.name, tags |-> it.tags, id |-> 0]

\* Valids.getLoadedItemsWithTags
LoadedItemsWithTags(tags) ==
    { CatalogItem(it) : it \in { c \in Catalog : \A i \in 1..Len(tags) : tags[i] \in c.tags } }

\* Valids.getLoadedItemWithName
LoadedItemWithName(itemName) ==
    { CatalogItem(it) : it \in { c \in Catalog : c.name = itemName } }

\* The decimal digits and the integer literals built of them.
Digits == <<"0", "1", "2", "3", "4", "5", "6", "7", "8", "9">>

DigitValue(d) == (CHOOSE i \in 1..Len(Digits) : Digits[i] = d) - 1

\* validateIsInt: the token, a sequence of characters, is a base-10 literal.
IsInt(token) ==
    /\ Len(token) >= 1
    /\ \A i \in 1..Len(token) : \E j \in 1..Len(Digits) : Digits[j] = token[i]

\* int(token)
RECURSIVE IntOf(_, _, _)
IntOf(token, i, acc) ==
    IF i > Len(token) THEN acc
    ELSE IntOf(token, i + 1, 10 * acc + DigitValue(token[i]))

\* The fields of a check no constructor has set yet.
Bare(args) ==
    [cls |-> ClassOf(args[1]), kind |-> args[1], short |-> NoShort,
     tags |-> <<>>, target |-> NoShort, items |-> {}, ctype |-> "", count |-> 0]

\* Whether the constructor of the class of args accepts args: the
\* unpacking of args succeeds and every validation passes.
Constructs(args) ==
    CASE ClassOf(args[1]) = "NearbyCheck" ->
           IF Len(args) = 2 /\ args[1] = "nearby"
           THEN ValidCharShort(args[2])
           ELSE Len(args) = 1
      [] ClassOf(args[1]) \in {"AliveCheck", "AloneCheck"} -> Len(args) = 1
      [] ClassOf(args[1]) = "ItemCheck" ->
           /\ Len(args) >= 2
           /\ args[1] = "item" => \A i \in 3..Len(args) : ValidItemTag(args[i])
      [] ClassOf(args[1]) = "CreateCheck" ->
           /\ Len(args) >= 2
           /\ IF args[1] = "create"
              THEN /\ \A i \in 3..Len(args) : ValidItemTag(args[i])
                   /\ LoadedItemsWithTags(SubSeq(args, 3, Len(args))) # {}
              ELSE /\ Len(args) >= 3
                   /\ LoadedItemWithName(args[3]) # {}
      [] ClassOf(args[1]) = "LimitCheck" ->
           /\ Len(args) = 3
           /\ IsInt(args[3])

\* The constructors.  NearbyCheck keeps a target only for two arguments of
\* which the first is "nearby"; AliveCheck and AloneCheck keep their one
\* argument; ItemCheck and CreateCheck keep rType, itemShort and the
\* remaining arguments as itemTags, CreateCheck also the candidate items
\* resolved now; LimitCheck keeps cType and the count as an integer.
Construct(args) ==
    CASE ClassOf(args[1]) = "NearbyCheck" ->
           IF Len(args) = 2 /\ args[1] = "nearby"
           THEN [Bare(args) EXCEPT !.target = args[2]]
           ELSE Bare(args)
      [] ClassOf(args[1]) \in {"AliveCheck", "AloneCheck"} -> Bare(args)
      [] ClassOf(args[1]) = "ItemCheck" ->
           [Bare(args) EXCEPT !.short = args[2],
                              !.tags = SubSeq(args, 3, Len(args))]
      [] ClassOf(args[1]) = "CreateCheck" ->
           [Bare(args) EXCEPT !.short = args[2],
                              !.tags = SubSeq(args, 3, Len(args)),
                              !.items = IF args[1] = "create"
                                        THEN LoadedItemsWithTags(SubSeq(args, 3, Len(args)))
                                        ELSE LoadedItemWithName(args[3])]
      [] ClassOf(args[1]) = "LimitCheck" ->
           [Bare(args) EXCEPT !.ctype = args[2], !.count = IntOf(args[3], 1, 0)]

\* Suite.load: one check per argument list, in the order authored; it
\* fails when a constructor does.
SuiteLoads(lists) == \A i \in 1..Len(lists) : Constructs(lists[i])

SuiteLoad(lists) == [i \in 1..Len(lists) |-> Construct(lists[i])]

\* CheckSuite.load
CheckSuiteLoadAppends(lists) ==
    LET loaded == SuiteLoad(lists) IN
    IF ~\E i \in 1..Len(loaded) : loaded[i].cls = "AliveCheck"
    THEN Append(loaded, Construct(<<"alive">>))
    ELSE loaded

CheckSuiteLoad(lists) ==
    LET loaded == SuiteLoad(lists) IN
    IF ~\E i \in 1..Len(loaded) : loaded[i].cls = "AliveCheck"
    THEN <<Construct(<<"alive">>)>> \o loaded
    ELSE loaded

\* Item.hasAllTags
HasAllTags(item, tags) == \A i \in 1..Len(tags) : tags[i] \in item.tags

\* Character.getItemByTags: the first item, in inventory order, with all the tags.
RECURSIVE GetItemByTags(_, _, _)
GetItemByTags(items, tags, i) ==
    IF i > Len(items) THEN NoItem
    ELSE IF HasAllTags(items[i], tags) THEN items[i]
         ELSE GetItemByTags(items, tags, i + 1)

\* Character.getItemByName
RECURSIVE GetItemByName(_, _, _)
GetItemByName(items, itemName, i) ==
    IF i > Len(items) THEN NoItem
    ELSE IF items[i].name = itemName THEN items[i]
         ELSE GetItemByName(items, itemName, i + 1)

\* State.setItem
SetItem(state, short, item) == [state EXCEPT !.items[short] = item]

\* The State has a character bound under the slot.
HasChar(state, short) == short \in DOMAIN state.chars

\* State.getChar
GetChar(state, short) == state.chars[short]

\* A check returned res and left the State as state.
Checked(res, state) == [res |-> res, state |-> state, raised |-> FALSE]

\* A check raised an exception.
Thrown(state) == [res |-> FALSE, state |-> state, raised |-> TRUE]

\* ItemCheck.check
ItemCheckBindsAnyway(ck, char, state) ==
    LET item == IF ck.kind = "item"
                THEN GetItemByTags(char.items, ck.tags, 1)
                ELSE GetItemByName(char.items, ck.tags[1], 1)
    IN  Checked(item # NoItem, SetItem(state, ck.short, item))

ItemCheck(ck, char, state) ==
    LET item == IF ck.kind = "item"
                THEN GetItemByTags(char.items, ck.tags, 1)
                ELSE GetItemByName(char.items, ck.tags[1], 1)
    IN  IF item = NoItem THEN Checked(FALSE, state)
        ELSE Checked(TRUE, SetItem(state, ck.short, item))

\* AliveCheck.check
AliveCheck(ck, char, state) ==
    IF ck.kind = "alive" THEN Checked(char.alive, state)
    ELSE Checked(~char.alive, state)

\* AloneCheck.check
AloneCheck(ck, char, state) ==
    IF ck.kind = "alone" /\ Len(char.alliance) = 0 THEN Checked(TRUE, state)
    ELSE IF ck.kind = "allied" /\ Len(char.alliance) # 0 THEN Checked(TRUE, state)
    ELSE Checked(FALSE, state)

\* Character.isNearby
IsNearby(char, other) == char.location = other.location

\* NearbyCheck.check.  A State asked for a character it has none for
\* (the target None of a check built without one) does not return one.
NearbyCheck(ck, char, state) ==
    IF ck.kind = "nearby"
    THEN IF HasChar(state, ck.target)
         THEN Checked(IsNearby(char, GetChar(state, ck.target)), state)
         ELSE Thrown(state)
    ELSE Checked(TRUE, state)

\* CreateCheck.check: the outcomes `choice(self.items)` allows.
CreateCheckFromInventory(ck, char, state) ==
    IF char.items = <<>> THEN { Thrown(state) }
    ELSE { Checked(TRUE, SetItem(state, ck.short, item)) : item \in Range(char.items) }

CreateCheck(ck, char, state) ==
    { Checked(TRUE, SetItem(state, ck.short, item)) : item \in ck.items }

\* LimitCheck.check
LimitCheckBelow(ck, char, state) ==
    IF ck.ctype = "perchar" THEN Checked(state.perchar < ck.count, state)
    ELSE Checked(state.total < ck.count, state)

LimitCheck(ck, char, state) ==
    IF ck.ctype = "perchar" THEN Checked(state.perchar <= ck.count, state)
    ELSE Checked(state.total <= ck.count, state)

\* ep.check(char, state), by the class of ep: the outcomes it may have.
Check(ck, char, state) ==
    CASE ck.cls = "NearbyCheck" -> { NearbyCheck(ck, char, state) }
      [] ck.cls = "AliveCheck" -> { AliveCheck(ck, char, state) }
      [] ck.cls = "AloneCheck" -> { AloneCheck(ck, char, state) }
      [] ck.cls = "ItemCheck" -> { ItemCheck(ck, char, state) }
      [] ck.cls = "CreateCheck" -> CreateCheck(ck, char, state)
      [] ck.cls = "LimitCheck" -> { LimitCheck(ck, char, state) }

\* One entry of the record kept of a checkAll run.
Entry(ck, state, out) ==
    [check |-> ck, before |-> state, after |-> out.state, res |-> out.res,
     raised |-> out.raised]

\* CheckSuite.checkAll: every check in turn, each on the State the one
\* before left; an exception of a check ends the run.  Each possible run
\* lists the checks made with the State before and after.
RECURSIVE CheckAllStopsAtFalse(_, _, _, _, _)
CheckAllStopsAtFalse(cks, char, state, i, log) ==
    IF i > Len(cks) THEN { log }
    ELSE UNION { IF out.raised \/ ~out.res
                 THEN { Append(log, Entry(cks[i], state, out)) }
                 ELSE CheckAllStopsAtFalse(cks, char, out.state, i + 1,
                                           Append(log, Entry(cks[i], state, out)))
                 : out \in Check(cks[i], char, state) }

RECURSIVE CheckAll(_, _, _, _, _)
CheckAll(cks, char, state, i, log) ==
    IF i > Len(cks) THEN { log }
    ELSE UNION { IF out.raised
                 THEN { Append(log, Entry(cks[i], state, out)) }
                 ELSE CheckAll(cks, char, out.state, i + 1,
                               Append(log, Entry(cks[i], state, out)))
                 : out \in Check(cks[i], char, state) }

\* The counters of a State in which nothing was triggered yet.
NoTriggers == [total |-> 0, perchar |-> 0]

InitCheck ==
    /\ events = GameEvents
    /\ cpc = "off"
    /\ call = NoCall
    /\ GameAtRest
    /\ AllianceAtRest
    /\ argsLists \in AuthoredLists
    /\ checks = <<>>
    /\ spc = "new"
    /\ subject = <<>>
    /\ bindings = <<>>
    /\ evalLog = <<>>
    /\ results = <<>>
    /\ triggers = NoTriggers
    /\ LifeAtRest

\* CheckSuite.load; a constructor that fails leaves the suite unloaded.
Load ==
    /\ spc = "new"
    /\ IF SuiteLoads(argsLists)
       THEN /\ checks' = CheckSuiteLoad(argsLists)
            /\ spc' = "loaded"
       ELSE /\ checks' = checks
            /\ spc' = "failed"
    /\ UNCHANGED <<argsLists, subject, bindings, evalLog, results, triggers,
                   offCheck>>

\* The States with the given item and character bindings and the trigger
\* counters as they stand.
StatesOver(itemBindings, charBindings) ==
    { [items |-> b, chars |-> ch, total |-> triggers.total,
       perchar |-> triggers.perchar] :
        b \in itemBindings, ch \in charBindings }

\* checkAll(char, state) for a character and a State of the given sets: it
\* returns the list of results, or the exception of a check ends it.
RunCheckAllOn(chars, states) ==
    /\ spc \in {"loaded", "nearby"}
    /\ \E char \in chars, state \in states :
         \E log \in CheckAll(checks, char, state, 1, <<>>) :
           /\ subject' = char
           /\ evalLog' = log
           /\ IF log # <<>> /\ log[Len(log)].raised
              THEN /\ spc' = "raised"
                   /\ results' = <<>>
              ELSE /\ spc' = "checked"
                   /\ results' = [i \in 1..Len(log) |-> log[i].res]
           /\ bindings' = IF log = <<>> THEN state.items
                          ELSE log[Len(log)].after.items
    /\ UNCHANGED <<argsLists, checks, triggers, offCheck>>

\* No character is bound in the State.
NoChars == <<>>

RunCheckAll == RunCheckAllOn(Subjects, StatesOver(StartBindings, {NoChars}))

\* The caller is done with the results; the suite is evaluated again later.
CheckAllDone ==
    /\ spc \in {"checked", "raised"}
    /\ spc' = "loaded"
    /\ subject' = <<>>
    /\ bindings' = <<>>
    /\ evalLog' = <<>>
    /\ results' = <<>>
    /\ UNCHANGED <<argsLists, checks, triggers, offCheck>>

NextCheck == Load \/ RunCheckAll \/ CheckAllDone

SpecCheck == InitCheck /\ [][NextCheck]_vars

----------------------------------------------------------------------------
(* SpecLife: Character.incAge, kill, revive and reset on every character    *)
(* of the cast, in any order.                                               *)

\* The fields of a character the four methods read and write.
Life(c) == [alive |-> alive[c], age |-> age[c], roundsSurvived |-> roundsSurvived[c]]

\* Character.__init__, lines 32-34
NewLife == [alive |-> TRUE, age |-> 1, roundsSurvived |-> 0]

\* Character.incAge
IncAgeAlways(l) ==
    [l EXCEPT !.age = @ + 1, !.roundsSurvived = @ + 1]

IncAge(l) ==
    IF l.alive
    THEN [l EXCEPT !.age = @ + 1, !.roundsSurvived = @ + 1]
    ELSE [l EXCEPT !.age = @ + 1]

\* Character.kill
KillLife(l) == [l EXCEPT !.alive = FALSE]

\* Character.revive
Revive(l) == [l EXCEPT !.alive = TRUE]

\* Character.reset, as far as liveness and the counters go
ResetLife(l) == [l EXCEPT !.alive = TRUE, !.age = 1, !.roundsSurvived = 0]

offLife ==
    <<events, chooseVars, allianceVars, checkVars, gpc, tIdx, allresults,
      stack, ret, chain, turnAlive, startAlive, returned, calls, request>>

InitLife ==
    /\ events = GameEvents
    /\ cpc = "off"
    /\ call = NoCall
    /\ alive = [c \in 1..NumChars |-> NewLife.alive]
    /\ gpc = "off"
    /\ tIdx = 0
    /\ allresults = <<>>
    /\ stack = <<>>
    /\ ret = <<>>
    /\ chain = <<>>
    /\ turnAlive = <<>>
    /\ startAlive = <<>>
    /\ returned = <<>>
    /\ calls = <<>>
    /\ request = <<>>
    /\ AllianceAtRest
    /\ CheckAtRest
    /\ age = [c \in 1..NumChars |-> NewLife.age]
    /\ roundsSurvived = [c \in 1..NumChars |-> NewLife.roundsSurvived]

\* Character c has become l.
Lives(c, l) ==
    /\ alive' = [alive EXCEPT ![c] = l.alive]
    /\ age' = [age EXCEPT ![c] = l.age]
    /\ roundsSurvived' = [roundsSurvived EXCEPT ![c] = l.roundsSurvived]
    /\ UNCHANGED offLife

IncAgeCall(c) ==
    /\ age[c] < MaxAge
    /\ Lives(c, IncAge(Life(c)))

KillCall(c) ==
    /\ c \in 1..NumChars
    /\ Lives(c, KillLife(Life(c)))

ReviveCall(c) ==
    /\ c \in 1..NumChars
    /\ Lives(c, Revive(Life(c)))

ResetLifeCall(c) ==
    /\ c \in 1..NumChars
    /\ Lives(c, ResetLife(Life(c)))

Ages == \E c \in 1..NumChars : IncAgeCall(c)

Kills == \E c \in 1..NumChars : KillCall(c)

Revives == \E c \in 1..NumChars : ReviveCall(c)

Resets == \E c \in 1..NumChars : ResetLifeCall(c)

NextLife == Ages \/ Kills \/ Revives \/ Resets

SpecLife == InitLife /\ [][NextLife]_vars

----------------------------------------------------------------------------
(* SpecSuite: a suite authored with proximity, creation and item             *)
(* conditions, loaded, passed to addNearbyCheckIfNeeded and evaluated for    *)
(* characters that have a location, with a target character bound as "b".   *)

Zones == {"forest", "lake"}

\* The argument lists an author may write here; "c" is no known slot.
SuiteArgs ==
    { <<"dead">>, <<"nearby", "b">>, <<"nearby">>, <<"nearby", "c">>,
      <<"anydistance">>, <<"create", "x", "weapon">>,
      <<"createeq", "y", "bread">>, <<"item", "x", "food">> }

SuiteLists ==
    UNION { [1..k -> SuiteArgs] : k \in 0..MaxChecks }

\* The characters evaluated: alone, somewhere, carrying at most one item.
SuiteSubjects ==
    { [alive |-> a, alliance |-> <<>>, items |-> inv, location |-> z] :
        a \in BOOLEAN, inv \in { i \in Inventories : Len(i) <= 1 }, z \in Zones }

\* The character bindings of the State: the target "b", somewhere.
Targets ==
    { [sl \in {"b"} |-> [location |-> z]] : z \in Zones }

\* CheckSuite.addNearbyCheckIfNeeded
AddNearbyCheckIfNeeded(cks) ==
    IF ~\E i \in 1..Len(cks) : cks[i].cls = "AliveCheck"
    THEN <<Construct(<<"nearby">>)>> \o cks
    ELSE cks

InitSuite ==
    /\ events = GameEvents
    /\ cpc = "off"
    /\ call = NoCall
    /\ GameAtRest
    /\ AllianceAtRest
    /\ argsLists \in SuiteLists
    /\ checks = <<>>
    /\ spc = "new"
    /\ subject = <<>>
    /\ bindings = <<>>
    /\ evalLog = <<>>
    /\ results = <<>>
    /\ triggers = NoTriggers
    /\ LifeAtRest

\* addNearbyCheckIfNeeded called on the loaded suite.
AddNearby ==
    /\ spc = "loaded"
    /\ checks' = AddNearbyCheckIfNeeded(checks)
    /\ spc' = "nearby"
    /\ UNCHANGED <<argsLists, subject, bindings, evalLog, results, triggers,
                   offCheck>>

RunSuite == RunCheckAllOn(SuiteSubjects, StatesOver(StartBindings, Targets))

NextSuite == Load \/ AddNearby \/ RunSuite \/ CheckAllDone

SpecSuite == InitSuite /\ [][NextSuite]_vars

----------------------------------------------------------------------------
(* SpecLimit: a suite authored with one limit condition, evaluated again    *)
(* and again on a State whose trigger counters grow.                        *)

\* The count tokens an author may write, character by character.
CountTokens == { <<"0">>, <<"2">>, <<"3">>, <<"1", "2">>, <<"x">> }

LimitLists ==
    { << <<"limit", t, n>> >> : t \in {"total", "perchar"}, n \in CountTokens }

LimitSubjects ==
    { [alive |-> a, alliance |-> <<>>, items |-> <<>>] : a \in BOOLEAN }

InitLimit ==
    /\ events = GameEvents
    /\ cpc = "off"
    /\ call = NoCall
    /\ GameAtRest
    /\ AllianceAtRest
    /\ argsLists \in LimitLists
    /\ checks = <<>>
    /\ spc = "new"
    /\ subject = <<>>
    /\ bindings = <<>>
    /\ evalLog = <<>>
    /\ results = <<>>
    /\ triggers = NoTriggers
    /\ LifeAtRest

\* The State counts a trigger: one more in total and, when it is the
\* subject's, one more for the subject.
CountTrigger ==
    /\ spc = "loaded"
    /\ triggers.total < MaxTriggers
    /\ \E own \in BOOLEAN :
         triggers' = [total |-> triggers.total + 1,
                      perchar |-> triggers.perchar + (IF own THEN 1 ELSE 0)]
    /\ UNCHANGED <<argsLists, checks, spc, subject, bindings, evalLog, results,
                   offCheck>>

RunLimit ==
    RunCheckAllOn(LimitSubjects, StatesOver({[sl \in ItemSlots |-> NoItem]}, {NoChars}))

NextLimit == Load \/ CountTrigger \/ RunLimit \/ CheckAllDone

SpecLimit == InitLimit /\ [][NextLimit]_vars

----------------------------------------------------------------------------
(* Claims about Game.chooseFromEvents, checked under SpecChoose *)

\* Positions of the weighted candidates: prepare succeeded, chance nonzero.
WeightedIdx(pool, prep) ==
    { i \in 1..Len(pool) : prep[i] /\ pool[i].chance # 0 }

\* Positions of the prepared zero-weight events.
FallbackIdx(pool, prep) ==
    { i \in 1..Len(pool) : prep[i] /\ pool[i].chance = 0 }

RECURSIVE SumChance(_, _)
SumChance(pool, idx) ==
    IF idx = {} THEN 0
    ELSE LET i == CHOOSE j \in idx : TRUE
         IN  pool[i].chance + SumChance(pool, idx \ {i})

\* Weight of the weighted candidates that precede position i in the pool.
CumBefore(pool, prep, i) ==
    SumChance(pool, { j \in WeightedIdx(pool, prep) : j < i })

TotalWeight(pool, prep) == SumChance(pool, WeightedIdx(pool, prep))

\* C1: whenever some event of the pool prepared successfully with a nonzero
\* chance, chooseFromEvents returns an event that prepared successfully and
\* has a nonzero chance: the zero-weight fallback is never returned.
C1_FallbackNeverBeatsWeighted ==
    (cpc = "called" /\ WeightedIdx(call.pool, call.prep) # {})
        => /\ call.result.kind = "return"
           /\ call.result.event.chance # 0
           /\ \E i \in WeightedIdx(call.pool, call.prep) :
                call.result.event = call.pool[i]

C1_Witness ==
    /\ cpc = "called"
    /\ WeightedIdx(call.pool, call.prep) # {}
    /\ FallbackIdx(call.pool, call.prep) # {}
    /\ call.result.kind = "return"
    /\ call.result.event.chance # 0

\* C2: with weighted candidates of total weight T > 0 the draw lies in
\* 0..T-1, the draws the code can make are exactly 0..T-1, every draw d of
\* that range returns the weighted candidate whose half-open interval
\* [weight before it, weight before it + its weight) contains d, so each
\* candidate is returned by exactly as many draws as its weight, and the
\* "Invalid choice" exception is never raised.
C2_WeightedSelection ==
    (cpc = "called" /\ WeightedIdx(call.pool, call.prep) # {})
        => LET pool == call.pool
               prep == call.prep
               W == WeightedIdx(pool, prep)
               T == TotalWeight(pool, prep)
           IN  /\ T > 0
               /\ call.choice \in 0..(T - 1)
               /\ Draws(call.loop) = 0..(T - 1)
               /\ call.result.kind = "return"
               /\ \E i \in W :
                    /\ call.result.event = pool[i]
                    /\ CumBefore(pool, prep, i) <= call.choice
                    /\ call.choice < CumBefore(pool, prep, i) + pool[i].chance
               /\ \A d \in 0..(T - 1) :
                    \E i \in W :
                      /\ Select(call.loop, d) = Return(pool[i])
                      /\ CumBefore(pool, prep, i) <= d
                      /\ d < CumBefore(pool, prep, i) + pool[i].chance
               /\ \A i \in W :
                    Cardinality({ d \in Draws(call.loop) :
                                    Select(call.loop, d) = Return(pool[i]) })
                        = pool[i].chance

\* The last of two weighted candidates, both of weight above one, is drawn.
C2_Witness ==
    /\ cpc = "called"
    /\ Cardinality(WeightedIdx(call.pool, call.prep)) >= 2
    /\ \A i \in WeightedIdx(call.pool, call.prep) : call.pool[i].chance >= 2
    /\ call.choice = TotalWeight(call.pool, call.prep) - 1
    /\ call.result.kind = "return"

\* C3: with no weighted candidate, a prepared zero-weight event of the pool
\* is returned if there is one; otherwise the call raises and returns no
\* event.  Either way prepare was called once per event of the pool, in pool
\* order: nothing is retried.
C3_FallbackOrFatal ==
    (cpc = "called" /\ WeightedIdx(call.pool, call.prep) = {})
        => /\ IF FallbackIdx(call.pool, call.prep) # {}
              THEN /\ call.result.kind = "return"
                   /\ \E i \in FallbackIdx(call.pool, call.prep) :
                        call.result.event = call.pool[i]
              ELSE /\ call.result.kind = "raise"
                   /\ call.result.event = NoEvent
           /\ call.choice = NoChoice
           /\ call.loop.prepareLog = [i \in 1..Len(call.pool) |-> call.pool[i].name]

\* The fallback is returned although the pool holds a weighted event whose
\* prepare failed.
C3_Witness ==
    /\ cpc = "called"
    /\ WeightedIdx(call.pool, call.prep) = {}
    /\ \E i \in 1..Len(call.pool) : call.pool[i].chance # 0
    /\ FallbackIdx(call.pool, call.prep) # {}
    /\ call.result.kind = "return"
    /\ call.result.event.chance = 0

\* The fatal case: events were offered, none prepared.
C3_FatalReached ==
    /\ cpc = "called"
    /\ Len(call.pool) >= 2
    /\ call.result.kind = "raise"

----------------------------------------------------------------------------
(* Claims about Game.trigger and Game.round, checked under SpecGame *)

\* The text results of the events named in s, in the order of s.
TextsOf(s) == [i \in 1..Len(s) |-> [text |-> s[i]]]

\* C4: when a Game.trigger call returns, its result holds exactly one text
\* result per event triggered by it and by its nested calls, in the order in
\* which they were triggered: for the outermost call of a chain of depth N
\* that is N results, the parent event's first and the leaf's last.
C4_ChainOrder ==
    gpc = "return"
        => /\ Len(ret) = Len(chain) - Len(stack)
           /\ ret = TextsOf(SubSeq(chain, Len(stack) + 1, Len(chain)))

\* An outermost call returns a chain of at least two events.
C4_Witness ==
    /\ gpc = "return"
    /\ stack = <<>>
    /\ Len(chain) >= 2
    /\ Len(ret) = Len(chain)
    /\ ret[1].text \in { GameEvents[i].name : i \in 1..Len(GameEvents) }

\* Tributes whose turn has come and who were alive at it.
AliveAtTurn == { i \in 1..Len(turnAlive) : turnAlive[i] }

\* C5: Game.round takes the tributes in cast order; every tribute alive at
\* its turn gets exactly one entry, appended once its whole chain is
\* resolved and before the next tribute's turn; a tribute dead at its turn
\* gets none; the list returned is the list so built.
C5_RoundOrder ==
    gpc \in {"round", "trigger", "return", "raised", "done"}
        => /\ Len(allresults) = Cardinality({ i \in AliveAtTurn : i < tIdx })
           /\ \A k \in 1..Len(allresults) :
                LET c == allresults[k].char
                IN  /\ c \in AliveAtTurn
                    /\ c < tIdx
                    /\ Tributes[c] = c
                    /\ Cardinality({ i \in AliveAtTurn : i <= c }) = k
                    /\ Len(allresults[k].results) >= 1
           /\ gpc \in {"trigger", "return"}
                => /\ Len(turnAlive) = tIdx
                   /\ turnAlive[tIdx]
           /\ gpc \in {"round", "done"}
                => /\ Len(turnAlive) = tIdx - 1
                   /\ stack = <<>>
                   /\ allresults # <<>>
                        => allresults[Len(allresults)].results = TextsOf(chain)
           /\ gpc = "done"
                => /\ returned = allresults
                   /\ Len(turnAlive) = Len(Tributes)

\* A round has returned in which a tribute, alive when the round began, was
\* killed by an earlier tribute's chain and so has no entry.
C5_Witness ==
    /\ gpc = "done"
    /\ \E i, j \in 1..Len(Tributes) :
         /\ i < j
         /\ startAlive[i] /\ startAlive[j]
         /\ turnAlive[i] /\ ~turnAlive[j]
         /\ \E k \in 1..Len(returned) : returned[k].char = Tributes[i]
         /\ \A k \in 1..Len(returned) : returned[k].char # Tributes[j]

----------------------------------------------------------------------------
(* Claims about alliances, checked under SpecAlliance and SpecJoinLeave *)

\* g is the shared collection of a group: it is not empty, its members all
\* refer to it and no other character does.
SharedGroup(st, g) ==
    /\ st.heap[g] # <<>>
    /\ \A c \in Chars : (c \in Range(st.heap[g])) <=> (st.alliance[c] = g)

\* C6: every non-empty alliance collection is referred to by each of its
\* members and by no character that is not a member.  (That a character is
\* alone iff its collection has size zero is how isAlone is defined.)
C6_AllianceInvariant ==
    \A g \in ListIds : heap[g] # <<>> => SharedGroup(Here, g)

\* C7: when c joins the shared collection of an existing group, the
\* resulting group is the old members plus c, every one of them is allied
\* (not alone) and refers to the one collection, c is an ally of every old
\* member and every old member is an ally of c.
C7_JoinMakesAllies ==
    [][\A c \in Chars, d \in Chars :
         (JoinCall(c, d) /\ SharedGroup(Here, alliance[d]))
            => LET old == Range(AllianceOf(Here, d))
               IN  /\ Range(AllianceOf(There, c)) = old \cup {c}
                   /\ \A m \in old \cup {c} :
                        /\ ~IsAlone(There, m)
                        /\ There.alliance[m] = There.alliance[c]
                   /\ \A m \in old :
                        /\ IsAllyOf(There, c, m)
                        /\ IsAllyOf(There, m, c)]_vars

\* A group of at least two, shared by exactly its members, who are allies of
\* one another.
C7_Witness ==
    \E g \in ListIds :
        /\ SharedGroup(Here, g)
        /\ Cardinality(Range(heap[g])) >= 2
        /\ \A m, n \in Range(heap[g]) : IsAllyOf(Here, m, n)

\* s without the occurrences of c.
Without(s, c) ==
    LET keep(x) == x # c IN SelectSeq(s, keep)

\* C8: leaveAlliance on a character that is alone changes nothing; on any
\* other character it leaves the character alone, with a collection no one
\* else refers to, and the collection it left, as the remaining members see
\* it, no longer holds the character and holds its other members as before.
C8_LeaveAlliance ==
    [][\A c \in Chars :
         LeaveCall(c)
            => IF IsAlone(Here, c)
               THEN There = Here
               ELSE /\ IsAlone(There, c)
                    /\ \A d \in Chars \ {c} :
                         /\ There.alliance[d] # There.alliance[c]
                         /\ alliance[d] = alliance[c]
                              => /\ c \notin Range(AllianceOf(There, d))
                                 /\ AllianceOf(There, d)
                                      = Without(AllianceOf(Here, c), c)]_vars

----------------------------------------------------------------------------
(* Claims about CheckSuite and ItemCheck, checked under SpecCheck *)

\* The authored lists that state a Liveness condition.
AuthoredLiveness == { i \in 1..Len(argsLists) : argsLists[i][1] \in {"alive", "dead"} }

LivenessChecks == { i \in 1..Len(checks) : checks[i].cls = "AliveCheck" }

\* C9: after load, a suite authored without a Liveness condition holds
\* exactly one, it is `alive`, it stands first and checkAll runs it first,
\* and the authored conditions follow in their declared order; a suite
\* authored with a Liveness condition holds the authored conditions only.
C9_ImplicitAlive ==
    spc \in {"loaded", "checked"}
        => /\ IF AuthoredLiveness = {}
              THEN /\ Len(checks) = Len(argsLists) + 1
                   /\ LivenessChecks = {1}
                   /\ checks[1].kind = "alive"
                   /\ \A i \in 1..Len(argsLists) :
                        /\ checks[i + 1].kind = argsLists[i][1]
                        /\ checks[i + 1].cls # "AliveCheck"
              ELSE /\ Len(checks) = Len(argsLists)
                   /\ \A i \in 1..Len(argsLists) : checks[i].kind = argsLists[i][1]
                   /\ LivenessChecks = AuthoredLiveness
           /\ spc = "checked"
                => /\ Len(evalLog) = Len(checks)
                   /\ \A i \in 1..Len(checks) : evalLog[i].check = checks[i]
                   /\ AuthoredLiveness = {}
                        => /\ evalLog[1].check.cls = "AliveCheck"
                           /\ evalLog[1].check.kind = "alive"
                           /\ evalLog[1].res = subject.alive

\* checkAll has run a suite authored with conditions but no Liveness one.
C9_Witness ==
    /\ spc = "checked"
    /\ AuthoredLiveness = {}
    /\ Len(argsLists) >= 2
    /\ evalLog[1].check.kind = "alive"
    /\ evalLog[2].check.kind = argsLists[1][1]

\* The inventory positions whose item the item check ck is looking for.
Sought(ck, items) ==
    { i \in 1..Len(items) :
        IF ck.kind = "item"
        THEN \A t \in Range(ck.tags) : t \in items[i].tags
        ELSE items[i].name = ck.tags[1] }

\* C10: an item / itemeq check that finds no matching item in the inventory
\* returns false and leaves the State as it was; one that finds a match
\* returns true and the State differs from before only in that the item slot
\* is bound to the first matching item of the inventory.
C10_ItemCheckFrame ==
    spc = "checked"
        => \A k \in 1..Len(evalLog) :
             evalLog[k].check.cls = "ItemCheck"
                => LET e == evalLog[k]
                       found == Sought(e.check, subject.items)
                   IN  IF found = {}
                       THEN /\ ~e.res
                            /\ e.after = e.before
                       ELSE /\ e.res
                            /\ \E i \in found :
                                 /\ \A j \in found : i <= j
                                 /\ e.after.items[e.check.short] = subject.items[i]
                            /\ \A sl \in ItemSlots \ {e.check.short} :
                                 e.after.items[sl] = e.before.items[sl]
                            /\ e.after = SetItem(e.before, e.check.short,
                                                 e.after.items[e.check.short])

\* An item check passed over a first item that does not match and bound the
\* second; another check of the same run found nothing and left an earlier
\* binding in place.
C10_Witness ==
    /\ spc = "checked"
    /\ Len(subject.items) >= 2
    /\ \E k \in 1..Len(evalLog) :
         /\ evalLog[k].check.cls = "ItemCheck"
         /\ evalLog[k].res
         /\ evalLog[k].after.items[evalLog[k].check.short] = subject.items[2]
    /\ \E k \in 1..Len(evalLog) :
         /\ evalLog[k].check.cls = "ItemCheck"
         /\ ~evalLog[k].res
         /\ evalLog[k].before.items[evalLog[k].check.short] = StaleItem
         /\ evalLog[k].after = evalLog[k].before

----------------------------------------------------------------------------
(* Claims about the conditions of a suite, checked under SpecSuite *)

\* The catalog's items a create / createeq check is authored to draw from.
CandidatePool(ck) ==
    { CatalogItem(it) : it \in
        { c \in Catalog : IF ck.kind = "create"
                          THEN \A t \in Range(ck.tags) : t \in c.tags
                          ELSE c.name = ck.tags[1] } }

\* C11: a create / createeq check never raises and returns true, whatever
\* the character and the State; the item it binds under its item slot is
\* one of the candidates resolved from the catalog when the check was
\* built, and no object of the character's inventory; nothing else of the
\* State changes.
C11_CreateBindsFromPool ==
    spc \in {"checked", "raised"}
        => \A k \in 1..Len(evalLog) :
             evalLog[k].check.cls = "CreateCheck"
                => LET e == evalLog[k]
                       bound == e.after.items[e.check.short]
                   IN  /\ ~e.raised
                       /\ e.res
                       /\ e.check.items = CandidatePool(e.check)
                       /\ bound \in CandidatePool(e.check)
                       /\ bound \notin Range(subject.items)
                       /\ e.after = SetItem(e.before, e.check.short, bound)

\* A create check with two candidates bound one over an earlier binding,
\* for a character that carries a copy of that very item.
C11_Witness ==
    /\ spc = "checked"
    /\ \E k \in 1..Len(evalLog) :
         LET e == evalLog[k] IN
         /\ e.check.cls = "CreateCheck"
         /\ Cardinality(e.check.items) >= 2
         /\ e.before.items[e.check.short] = StaleItem
         /\ e.after.items[e.check.short] \in e.check.items
         /\ \E i \in 1..Len(subject.items) :
              subject.items[i].name = e.after.items[e.check.short].name

----------------------------------------------------------------------------
(* Claims about Game.triggerByName, checked under SpecByName *)

\* Cast positions whose name is the one asked for.
NamedChars == { i \in 1..Len(Tributes) : name[Tributes[i]] = request.charName }

\* Library positions whose event has the name asked for.
NamedEventIdx == { j \in 1..Len(events) : events[j].name = request.eventName }

Least(S) == CHOOSE i \in S : \A j \in S : i <= j

\* triggerByName returned result alone and nothing was triggered.
OnlyResult(result) ==
    /\ gpc = "done"
    /\ returned = <<result>>
    /\ chain = <<>>
    /\ stack = <<>>
    /\ alive = startAlive

\* C12: a triggerByName call does not raise on a failed lookup or a failed
\* prepare.  With no tribute of the character name it returns the one
\* "unable to find character" result and prepares and triggers nothing;
\* else with no event of the event name it returns the one "unable to find
\* event" result and prepares and triggers nothing; else it calls prepare
\* once, on the first event of that name for the first tribute of that
\* name, and returns the one "Trigger failed" result and triggers nothing
\* if prepare fails, and triggers that event for that tribute if it
\* succeeds.
C12_TriggerByName ==
    (gpc \in {"trigger", "return", "raised", "done"} /\ request # NoRequest)
        => IF NamedChars = {}
           THEN /\ OnlyResult(CharNotFound(request.charName))
                /\ request.prepares = <<>>
           ELSE IF NamedEventIdx = {}
           THEN /\ OnlyResult(EventNotFound(request.eventName))
                /\ request.prepares = <<>>
           ELSE /\ Len(request.prepares) = 1
                /\ request.prepares[1].char = Tributes[Least(NamedChars)]
                /\ request.prepares[1].event = events[Least(NamedEventIdx)]
                /\ IF ~request.prepares[1].result
                   THEN OnlyResult(TriggerFailed)
                   ELSE /\ tIdx = Tributes[Least(NamedChars)]
                        /\ IF chain = <<>>
                           THEN stack = <<Frame(events[Least(NamedEventIdx)])>>
                           ELSE chain[1] = events[Least(NamedEventIdx)].name

\* "Trigger failed" was returned for a name two tributes bear and an event
\* name two events bear, after an earlier call had triggered a chain.
C12_Witness ==
    /\ gpc = "done"
    /\ returned = <<TriggerFailed>>
    /\ Cardinality(NamedChars) >= 2
    /\ Cardinality(NamedEventIdx) >= 2
    /\ \E c \in 1..NumChars : ~alive[c]

----------------------------------------------------------------------------
(* Claims about proximity conditions and the suite, under SpecSuite *)

\* C13: every nearby condition that was constructed has a target slot, one
\* the Registry knows, and evaluating it returns whether the character's
\* location is the location of the character bound under that slot;
\* anydistance returns true.
C13_NearbyNeedsTarget ==
    /\ spc \in {"loaded", "nearby", "checked", "raised"}
         => \A i \in 1..Len(checks) :
              checks[i].kind = "nearby"
                 => /\ checks[i].target # NoShort
                    /\ ValidCharShort(checks[i].target)
    /\ spc \in {"checked", "raised"}
         => \A k \in 1..Len(evalLog) :
              evalLog[k].check.cls = "NearbyCheck"
                 => LET e == evalLog[k] IN
                    /\ ~e.raised
                    /\ e.after = e.before
                    /\ IF e.check.kind = "nearby"
                       THEN e.res = (subject.location
                                       = e.before.chars[e.check.target].location)
                       ELSE e.res

\* The part of C13 the code keeps: a nearby condition that has a target
\* has a known one and tells whether the locations agree.
C13_NearbyWithTarget ==
    spc \in {"checked", "raised"}
        => \A k \in 1..Len(evalLog) :
             (evalLog[k].check.kind = "nearby" /\ evalLog[k].check.target # NoShort)
                => LET e == evalLog[k] IN
                   /\ ValidCharShort(e.check.target)
                   /\ ~e.raised
                   /\ e.res = (subject.location
                                  = e.before.chars[e.check.target].location)

\* C16: addNearbyCheckIfNeeded, called on a loaded suite, puts one
\* Proximity condition in front of the suite's conditions when the suite
\* holds none, and leaves the suite as it is when it holds one.
C16_NearbyOnlyIfAbsent ==
    spc = "nearby"
        => LET loaded == CheckSuiteLoad(argsLists) IN
           IF \E i \in 1..Len(loaded) : loaded[i].cls = "NearbyCheck"
           THEN checks = loaded
           ELSE /\ Len(checks) = Len(loaded) + 1
                /\ checks[1].cls = "NearbyCheck"
                /\ SubSeq(checks, 2, Len(checks)) = loaded

\* C17: a checkAll run that returns has run every condition of the suite,
\* in the suite's order, each on the State the one before it left and
\* whatever the results before it; the list returned holds one boolean per
\* condition, the i-th being the i-th condition's result.
C17_CheckAllRunsAll ==
    spc = "checked"
        => /\ Len(results) = Len(checks)
           /\ Len(evalLog) = Len(checks)
           /\ \A i \in 1..Len(checks) :
                /\ evalLog[i].check = checks[i]
                /\ results[i] \in BOOLEAN
                /\ results[i] = evalLog[i].res
                /\ i > 1 => evalLog[i].before = evalLog[i - 1].after
                /\ \E out \in Check(checks[i], subject, evalLog[i].before) :
                     /\ ~out.raised
                     /\ out.res = results[i]
                     /\ out.state = evalLog[i].after

\* After a condition that failed, an item condition and a create condition
\* bound their items.
C17_Witness ==
    /\ spc = "checked"
    /\ Len(checks) >= 3
    /\ ~results[1]
    /\ \E j \in 2..Len(checks) :
         /\ checks[j].cls = "ItemCheck"
         /\ results[j]
         /\ evalLog[j].after # evalLog[j].before
    /\ \E j \in 2..Len(checks) :
         /\ checks[j].cls = "CreateCheck"
         /\ evalLog[j].after # evalLog[j].before

----------------------------------------------------------------------------
(* Claims about LimitCheck, checked under SpecLimit *)

\* The ceiling the author wrote as the count token.
Ceiling(token) ==
    CASE token = <<"0">> -> 0
      [] token = <<"2">> -> 2
      [] token = <<"3">> -> 3
      [] token = <<"1", "2">> -> 12

\* C14: a limit check with ceiling n returns true iff the counter it looks
\* at, the State's total for `total` and the subject's own for `perchar`,
\* is at most n: for n = 3 true at 0, 1, 2, 3 and false at 4, so with a
\* counter that grows by one per trigger it returns false first when the
\* counter stands at n + 1.
C14_LimitInclusive ==
    spc = "checked"
        => \A k \in 1..Len(evalLog) :
             evalLog[k].check.cls = "LimitCheck"
                => LET e == evalLog[k]
                       n == Ceiling(argsLists[1][3])
                       counter == IF argsLists[1][2] = "perchar"
                                  THEN triggers.perchar ELSE triggers.total
                   IN  /\ e.check.count = n
                       /\ e.res = (counter <= n)
                       /\ n = 3 => (e.res <=> counter \in {0, 1, 2, 3})
                       /\ e.after = e.before

\* `limit total 3` returns false with four triggers counted, of which the
\* subject's own are fewer.
C14_Witness ==
    /\ spc = "checked"
    /\ argsLists = << <<"limit", "total", <<"3">>>> >>
    /\ triggers.total = 4
    /\ triggers.perchar < 4
    /\ \E k \in 1..Len(evalLog) :
         /\ evalLog[k].check.cls = "LimitCheck"
         /\ ~evalLog[k].res

----------------------------------------------------------------------------
(* Claims about Character equality, checked under SpecAlliance *)

\* C15: two characters that agree in name, image reference and pronouns
\* (their items, tags, location and liveness are those the constructor
\* sets, hence agree too) compare equal, whatever their alliance
\* collections hold, after any joinAlliance, leaveAlliance and reset calls.
C15_EqualityIgnoresAlliance ==
    \A c, d \in Chars :
        name[c] = name[d] => /\ CharEq(Here, c, d)
                             /\ CharEq(Here, d, c)

\* Two distinct characters with the same fields compare equal while one is
\* alone and the other is in a group of two that holds neither of them
\* twice.
C15_Witness ==
    \E c, d \in Chars :
        /\ c # d
        /\ name[c] = name[d]
        /\ IsAlone(Here, c)
        /\ Len(AllianceOf(Here, d)) = 2
        /\ Cardinality(Range(AllianceOf(Here, d))) = 2
        /\ d \in Range(AllianceOf(Here, d))
        /\ CharEq(Here, c, d)

----------------------------------------------------------------------------
(* Claims about a character's counters, checked under SpecLife *)

\* The counters of character c before and after a step.
Counters(c) == <<age[c], roundsSurvived[c]>>

CountersAfter(c) == <<age'[c], roundsSurvived'[c]>>

\* C18: for every character 0 <= roundsSurvived <= age - 1 at all times;
\* incAge raises age by exactly one and roundsSurvived by exactly one if
\* the character is alive at the call and not at all if it is dead; kill
\* and revive change neither counter; reset sets them to 1 and 0; and a
\* call on one character changes no counter of another.
C18_Counters ==
    /\ [](\A c \in 1..NumChars :
            /\ 0 <= roundsSurvived[c]
            /\ roundsSurvived[c] <= age[c] - 1)
    /\ [][\A c \in 1..NumChars :
            /\ IncAgeCall(c)
                 => /\ age'[c] = age[c] + 1
                    /\ roundsSurvived'[c]
                         = roundsSurvived[c] + (IF alive[c] THEN 1 ELSE 0)
                    /\ alive'[c] = alive[c]
            /\ (KillCall(c) \/ ReviveCall(c))
                 => CountersAfter(c) = Counters(c)
            /\ ResetLifeCall(c)
                 => CountersAfter(c) = <<1, 0>>
            /\ CountersAfter(c) # Counters(c)
                 => \A d \in 1..NumChars \ {c} :
                       /\ CountersAfter(d) = Counters(d)
                       /\ alive'[d] = alive[d]]_vars

\* A character that was dead for some of its rounds and alive for others,
\* and is dead now.
C18_Witness ==
    \E c \in 1..NumChars :
        /\ ~alive[c]
        /\ age[c] = MaxAge
        /\ roundsSurvived[c] >= 1
        /\ roundsSurvived[c] < age[c] - 1

----------------------------------------------------------------------------
(* Further claims about Game.chooseFromEvents, under SpecChoose and SpecGame *)

Greatest(S) == CHOOSE i \in S : \A j \in S : j <= i

\* The events at the positions idx of the pool, in pool order.
RECURSIVE EventsAt(_, _, _)
EventsAt(pool, idx, i) ==
    IF i > Len(pool) THEN <<>>
    ELSE (IF i \in idx THEN <<pool[i]>> ELSE <<>>) \o EventsAt(pool, idx, i + 1)

\* C19: the fallback chooseFromEvents retains is the last zero-weight event
\* of the pool, in pool order, whose prepare succeeded, and with no
\* weighted candidate that event is returned; the weighted-candidate list
\* holds the prepared nonzero-weight events and no other, in pool order,
\* and the total weight is the sum of their weights: a zero-weight event
\* enters neither.
C19_LastFallbackWins ==
    cpc = "called"
        => LET pool == call.pool
               prep == call.prep
               F == FallbackIdx(pool, prep)
               W == WeightedIdx(pool, prep)
           IN  /\ call.loop.defaultEvent
                    = (IF F = {} THEN NoEvent ELSE pool[Greatest(F)])
               /\ (W = {} /\ F # {})
                    => call.result = Return(pool[Greatest(F)])
               /\ call.loop.possibleEvents = EventsAt(pool, W, 1)
               /\ \A i \in 1..Len(call.loop.possibleEvents) :
                    call.loop.possibleEvents[i].chance # 0
               /\ call.loop.totalChance = SumChance(pool, W)

\* Of the zero-weight events of a pool at least two were prepared with
\* success and one without, beside a weighted event whose prepare failed:
\* the event returned is not the first of the successful ones.
C19_Witness ==
    /\ cpc = "called"
    /\ WeightedIdx(call.pool, call.prep) = {}
    /\ Cardinality(FallbackIdx(call.pool, call.prep)) >= 2
    /\ \E i \in 1..Len(call.pool) : call.pool[i].chance = 0 /\ ~call.prep[i]
    /\ \E i \in 1..Len(call.pool) : call.pool[i].chance # 0
    /\ call.result.kind = "return"
    /\ call.result.event # call.pool[Least(FallbackIdx(call.pool, call.prep))]

\* C20: every chooseFromEvents call of a chain prepares each event of
\* its pool once, in pool order, with the state it was given.  The first
\* call of a chain, Game.round's, is given no pool and no state and goes
\* through the library; every later call is made by Game.trigger with the
\* non-empty sub-event list as the pool and the State the parent event's
\* trigger returned; the event triggered next comes from the pool of the
\* call; a trigger that returns no sub-events is followed by no call.
C20_PrepareCalls ==
    gpc \in {"round", "trigger", "return", "raised", "done"}
        => /\ Len(calls) = Len(chain) + (IF gpc \in {"trigger", "raised"} THEN 1 ELSE 0)
           /\ \A k \in 1..Len(calls) :
                LET c == calls[k] IN
                /\ IF k = 1
                   THEN /\ c.argEvents = <<>>
                        /\ c.state = NoState
                        /\ c.pool = events
                   ELSE /\ c.argEvents # <<>>
                        /\ c.state = StateOf(k - 1)
                        /\ c.pool = c.argEvents
                        /\ c.pool # events
                /\ Len(c.prepares) = Len(c.pool)
                /\ \A i \in 1..Len(c.pool) :
                     /\ c.prepares[i].event = c.pool[i].name
                     /\ c.prepares[i].state = c.state
                /\ k <= Len(chain)
                     => \E i \in 1..Len(c.pool) : c.pool[i].name = chain[k]
           /\ gpc = "trigger"
                => \E i \in 1..Len(calls[Len(calls)].pool) :
                     calls[Len(calls)].pool[i] = stack[Len(stack)].event

\* A chain of two events has returned: the second was chosen from a pool of
\* two sub-events, both prepared with the State of the first, and returned
\* no sub-events.
C20_Witness ==
    /\ gpc = "return"
    /\ stack = <<>>
    /\ Len(chain) = 2
    /\ Len(calls) = 2
    /\ Len(calls[2].prepares) = 2
    /\ calls[2].prepares[2].state = StateOf(1)
    /\ calls[1].prepares[1].state = NoState

====
